---- MODULE Spec2Model ----
(***************************************************************************)
(* Model of bot.py, the multi-exchange price alert bot.                    *)
(*                                                                         *)
(* State: the module globals active_alerts, pending_alerts, alert_counter, *)
(* the snapshot file active_alerts.json, the coroutines suspended at an    *)
(* await (update handlers and the check_alerts job), and the last message  *)
(* handed to the chat transport.                                           *)
(*                                                                         *)
(* Python dicts keep insertion order, so a dict is a sequence of records   *)
(* [k, v].  Strings that the code takes apart (symbols, ids, price text)   *)
(* are sequences of one-character strings.  Prices are floats in the code; *)
(* only their order matters to it, and they are integers here.             *)
(***************************************************************************)
EXTENDS Integers, Sequences, FiniteSets, TLC

\* ---------------------------------------------------------------- bounds
\* alerts created in one run
MaxCounter == 2
\* updates handled at the same time, where the application is built to do so
MaxHandlers == 2

Chats == {1, -2}

\* every alert of the model has the target 2: a price is below it, on it or above it
Prices == {1, 2, 3}

\* get_price's "no price" result
None == -1

\* ---------------------------------------------------------------- strings
Chr(s) == <<s>>
USDT == <<"U", "S", "D", "T">>
BTC == <<"B">>
ETH == <<"E">>

Digits == <<"0", "1", "2", "3", "4", "5", "6", "7", "8", "9">>
IsDigit(c) == \E i \in 1..10 : Digits[i] = c
DigitVal(c) == (CHOOSE i \in 1..10 : Digits[i] = c) - 1

RECURSIVE StrNat(_)
StrNat(n) == IF n < 10 THEN <<Digits[n + 1]>>
             ELSE StrNat(n \div 10) \o <<Digits[(n % 10) + 1]>>

\* str(n) of an int
Str(n) == IF n < 0 THEN <<"-">> \o StrNat(0 - n) ELSE StrNat(n)

RECURSIVE NatOf(_)
NatOf(s) == IF s = <<>> THEN 0
            ELSE 10 * NatOf(SubSeq(s, 1, Len(s) - 1)) + DigitVal(s[Len(s)])

AllDigits(s) == s # <<>> /\ \A i \in 1..Len(s) : IsDigit(s[i])

\* int(s) succeeds (no ValueError)
IntOk(s) == \/ AllDigits(s)
            \/ Len(s) > 1 /\ s[1] \in {"-", "+"} /\ AllDigits(Tail(s))

\* int(s)
IntOf(s) == IF s[1] = "-" THEN 0 - NatOf(Tail(s))
            ELSE IF s[1] = "+" THEN NatOf(Tail(s))
            ELSE NatOf(s)

UpperChar(c) == CASE c = "b" -> "B"
                  [] c = "e" -> "E"
                  [] c = "u" -> "U"
                  [] c = "s" -> "S"
                  [] c = "d" -> "D"
                  [] c = "t" -> "T"
                  [] OTHER -> c

\* s.upper()
Upper(s) == [i \in 1..Len(s) |-> UpperChar(s[i])]

\* s.endswith(suf)
EndsWith(s, suf) == /\ Len(s) >= Len(suf)
                    /\ SubSeq(s, Len(s) - Len(suf) + 1, Len(s)) = suf

RECURSIVE RemoveCommas(_)
RemoveCommas(s) == IF s = <<>> THEN <<>>
                   ELSE IF Head(s) = "," THEN RemoveCommas(Tail(s))
                   ELSE <<Head(s)>> \o RemoveCommas(Tail(s))

\* float(s) succeeds, for the price texts of the model (digits only)
FloatOk(s) == AllDigits(s)
FloatOf(s) == NatOf(s)

\* exchange.lower()
Lower(e) == CASE e = "MEXC" -> "mexc"
              [] e = "Binance" -> "binance"
              [] OTHER -> e

Exchanges == {"binance", "bybit", "bitget", "mexc"}

\* ---------------------------------------------------------------- dicts
Has(d, k) == \E i \in 1..Len(d) : d[i].k = k
Idx(d, k) == CHOOSE i \in 1..Len(d) : d[i].k = k
Get(d, k) == d[Idx(d, k)].v
Keys(d) == [i \in 1..Len(d) |-> d[i].k]
KeySet(d) == {d[i].k : i \in 1..Len(d)}

\* d[k] = v
Put(d, k, v) == IF Has(d, k) THEN [d EXCEPT ![Idx(d, k)].v = v]
                ELSE Append(d, [k |-> k, v |-> v])

\* del d[k], for a key of d
Del(d, k) == LET i == Idx(d, k)
             IN SubSeq(d, 1, i - 1) \o SubSeq(d, i + 1, Len(d))

\* ---------------------------------------------------------------- state
VARIABLES
    active_alerts,   \* dict chat_id -> dict alert_id -> alert
    pending_alerts,  \* function on the chats with a pending selection
    alert_counter,   \* next alert id
    file,            \* active_alerts.json: [state, data]
    handlers,        \* update handlers suspended at an await, by slot
    tick,            \* the check_alerts job
    out,             \* what the last step replied or logged
    assigned,        \* history: the ids given out, in this run and before it
    notices,         \* history: the alerts of this run with a notification
                     \* delivered, and those with a send that failed
    reply,           \* the last report of compare_prices
    env              \* the surroundings of the run: who writes, what the
                     \* exchanges, the file system and the transport answer

vars == <<active_alerts, pending_alerts, alert_counter, file, handlers, tick, out,
          assigned, notices, reply, env>>

Slots == DOMAIN handlers

IdleHandler == [pc |-> "idle", chat |-> 0, symbol |-> <<>>, target |-> 0, exchange |-> ""]

IdleTick == [pc |-> "idle", outer |-> <<>>, inner |-> <<>>, chat |-> 0,
             alert_id |-> <<>>, target_price |-> 0, initial_price |-> 0,
             last_price |-> 0, current_price |-> 0]

NoFile == [state |-> "absent", data |-> <<>>]

NoNotices == [delivered |-> {}, failed |-> {}]

NoReply == [shown |-> <<>>, spread |-> None]

\* ---------------------------------------------------------------- persistence
SaveOutcomes == {"ok", "open_failed", "write_failed"}

\* a bug: the chats without alerts are left out of the snapshot
DumpNonEmpty(store) ==
    LET kept == SelectSeq(store, LAMBDA e : e.v # <<>>)
    IN [i \in 1..Len(kept) |-> [k |-> Str(kept[i].k), v |-> kept[i].v]]

\* json.dump(active_alerts): the int chat ids become strings
Dump(store) == [i \in 1..Len(store) |-> [k |-> Str(store[i].k), v |-> store[i].v]]

\* save_alerts(): w is what the file system does with the write
SaveAlerts(store, f, w) ==
    CASE w = "ok" -> [state |-> "ok", data |-> Dump(store)]
      [] w = "open_failed" -> f
      [] w = "write_failed" -> [state |-> "corrupt", data |-> <<>>]

AlertIds(store) == UNION {KeySet(store[i].v) : i \in 1..Len(store)}

Max(S) == CHOOSE x \in S : \A y \in S : y <= x

\* load_data(), lines 41-48
MaxId(store) == Max({0} \cup {IntOf(a) : a \in {b \in AlertIds(store) : IntOk(b)}})

LoadKeysOk(data) == \A i \in 1..Len(data) : IntOk(data[i].k)

\* {int(k): v for k, v in data.items()}
LoadedAlerts(data) == [i \in 1..Len(data) |-> [k |-> IntOf(data[i].k), v |-> data[i].v]]

\* a bug: the counter starts at the largest id of the snapshot
LoadDataFromMaxId(f) ==
    IF f.state = "ok" /\ LoadKeysOk(f.data)
    THEN <<LoadedAlerts(f.data), MaxId(LoadedAlerts(f.data))>>
    ELSE <<(<<>>), 0>>

\* load_data() on a fresh process: <<active_alerts, alert_counter>>
LoadData(f) ==
    IF f.state = "ok" /\ LoadKeysOk(f.data)
    THEN <<LoadedAlerts(f.data), MaxId(LoadedAlerts(f.data)) + 1>>
    ELSE <<(<<>>), 0>>

Env(chats, texts, prices, saves, sends, creations, workers) ==
    [chats |-> chats, texts |-> texts, prices |-> prices, saves |-> saves,
     sends |-> sends, creations |-> creations, workers |-> workers]

\* the state after main() has run load_data() with no snapshot file
InitIn(e) ==
    /\ active_alerts = <<>>
    /\ pending_alerts = <<>>
    /\ alert_counter = 0
    /\ file = NoFile
    /\ handlers = [h \in 1..e.workers |-> IdleHandler]
    /\ tick = IdleTick
    /\ out = "started"
    /\ assigned = [run |-> {}, before |-> {}]
    /\ notices = NoNotices
    /\ reply = NoReply
    /\ env = e

\* the process is stopped and started again: main(), lines 545-569
Restart ==
    /\ active_alerts' = LoadData(file)[1]
    /\ alert_counter' = LoadData(file)[2]
    /\ pending_alerts' = <<>>
    /\ handlers' = [h \in Slots |-> IdleHandler]
    /\ tick' = IdleTick
    /\ out' = "started"
    /\ assigned' = [run |-> {}, before |-> assigned.before \cup assigned.run]
    /\ notices' = NoNotices
    /\ UNCHANGED <<file, reply, env>>

\* ---------------------------------------------------------------- price source
\* get_price(symbol, exchange): the results the exchange can give
GetPrice(symbol, exchange) ==
    IF Lower(exchange) \in Exchanges THEN env.prices \cup {None} ELSE {None}

\* ---------------------------------------------------------------- inputs
Text(n, sym, price, exch) == [n |-> n, sym |-> sym, price |-> price, exch |-> exch]

\* the messages of the model: SYMBOL PRICE [EXCHANGE]
InputTexts == {
    Text(1, BTC, <<>>, ""),
    Text(2, <<"b">>, <<"x">>, ""),
    Text(3, ETH, <<"2">>, "kraken"),
    Text(3, <<"b">>, <<"2", ",">>, "Binance"),
    Text(2, ETH \o USDT, <<"2">>, "") }

\* a second message without exchange, for another symbol
MoreTexts == InputTexts \cup {Text(2, <<"b">>, <<"2">>, "")}

\* the exchange buttons pressed
ButtonExchanges == {"bybit"}

\* ---------------------------------------------------------------- handlers
FreeSlots == {h \in Slots : handlers[h].pc = "idle"}
FreeSlot == CHOOSE h \in FreeSlots : \A g \in FreeSlots : h <= g

\* creations that are under way or done in this run
Creating == Cardinality({h \in Slots : handlers[h].pc # "idle"})
MayCreate == FreeSlots # {} /\ alert_counter + Creating < env.creations

\* lines 322-326
NormSymbol(sym) == IF EndsWith(Upper(sym), USDT) THEN Upper(sym) ELSE Upper(sym) \o USDT

\* pending_alerts[chat_id] = {...}, lines 348-351
PutPending(pend, chat, symbol, target) ==
    [c \in DOMAIN pend \cup {chat} |->
        IF c = chat THEN [symbol |-> symbol, target |-> target] ELSE pend[c]]

\* a bug: the entry is left in the buffer
DelPendingNot(pend, chat) == pend

\* del pending_alerts[chat_id], line 389
DelPending(pend, chat) == [c \in DOMAIN pend \ {chat} |-> pend[c]]

\* handle_message, lines 306-369
HandleMessage(chat, txt) ==
    LET symbol == NormSymbol(txt.sym)
        ptext == RemoveCommas(txt.price)
        exchange == Lower(txt.exch)
    IN
    /\ UNCHANGED <<active_alerts, alert_counter, file, tick, assigned, notices, reply, env>>
    /\ IF txt.n < 2 \/ txt.n > 3
       THEN /\ out' = "invalid"
            /\ UNCHANGED <<pending_alerts, handlers>>
       ELSE IF ~FloatOk(ptext)
       THEN /\ out' = "invalid"
            /\ UNCHANGED <<pending_alerts, handlers>>
       ELSE IF txt.n = 3
       THEN IF exchange \notin Exchanges
            THEN /\ out' = "invalid"
                 /\ UNCHANGED <<pending_alerts, handlers>>
            ELSE /\ MayCreate
                 /\ handlers' = [handlers EXCEPT ![FreeSlot] =
                        [pc |-> "set_alert", chat |-> chat, symbol |-> symbol,
                         target |-> FloatOf(ptext), exchange |-> exchange]]
                 /\ out' = "fetching"
                 /\ UNCHANGED pending_alerts
       ELSE /\ pending_alerts' = PutPending(pending_alerts, chat, symbol, FloatOf(ptext))
            /\ out' = "select_exchange"
            /\ UNCHANGED handlers

\* a bug: alert_counter += 1 is missing
StoreAlertSameCounter(store, counter, chat, symbol, target, exchange, current_price) ==
    LET store1 == IF Has(store, chat) THEN store ELSE Append(store, [k |-> chat, v |-> <<>>])
        alert_id == Str(counter)
        alert == [symbol |-> symbol, target |-> target, initial |-> current_price,
                  last_price |-> current_price, exchange |-> exchange]
    IN <<Put(store1, chat, Put(Get(store1, chat), alert_id, alert)), counter, alert_id>>

\* lines 403-416 and 441-454: the new <<active_alerts, alert_counter>> and the id
StoreAlert(store, counter, chat, symbol, target, exchange, current_price) ==
    LET store1 == IF Has(store, chat) THEN store ELSE Append(store, [k |-> chat, v |-> <<>>])
        alert_id == Str(counter)
        alert == [symbol |-> symbol, target |-> target, initial |-> current_price,
                  last_price |-> current_price, exchange |-> exchange]
    IN <<Put(store1, chat, Put(Get(store1, chat), alert_id, alert)), counter + 1, alert_id>>

\* a bug: the id is taken from the counter before the price is looked at
CreateAfterFetchEager(h, current_price, w) ==
    LET me == handlers[h]
        new == StoreAlert(active_alerts, alert_counter, me.chat, me.symbol,
                          me.target, me.exchange, current_price)
    IN
    /\ current_price \in GetPrice(me.symbol, me.exchange)
    /\ handlers' = [handlers EXCEPT ![h] = IdleHandler]
    /\ alert_counter' = new[2]
    /\ assigned' = [assigned EXCEPT !.run = @ \cup {new[3]}]
    /\ UNCHANGED <<pending_alerts, tick, notices, reply, env>>
    /\ IF current_price = None
       THEN /\ out' = "not_found"
            /\ w = "ok"
            /\ UNCHANGED <<active_alerts, file>>
       ELSE /\ active_alerts' = new[1]
            /\ file' = SaveAlerts(new[1], file, w)
            /\ out' = "alert_set"

\* the part of set_alert and set_alert_from_callback after the price fetch
CreateAfterFetch(h, current_price, w) ==
    LET me == handlers[h]
        new == StoreAlert(active_alerts, alert_counter, me.chat, me.symbol,
                          me.target, me.exchange, current_price)
    IN
    /\ current_price \in GetPrice(me.symbol, me.exchange)
    /\ handlers' = [handlers EXCEPT ![h] = IdleHandler]
    /\ UNCHANGED <<pending_alerts, tick, notices, reply, env>>
    /\ IF current_price = None
       THEN /\ out' = "not_found"
            /\ w = "ok"
            /\ UNCHANGED <<active_alerts, alert_counter, file, assigned>>
       ELSE /\ active_alerts' = new[1]
            /\ alert_counter' = new[2]
            /\ assigned' = [assigned EXCEPT !.run = @ \cup {new[3]}]
            /\ file' = SaveAlerts(new[1], file, w)
            /\ out' = "alert_set"

\* set_alert resumes after await get_price, lines 398-429
SetAlert(h, current_price, w) ==
    /\ handlers[h].pc = "set_alert"
    /\ CreateAfterFetch(h, current_price, w)

\* button_callback is called, up to await query.answer(), lines 371-374
ButtonPressed(chat, exchange) ==
    /\ MayCreate
    /\ handlers' = [handlers EXCEPT ![FreeSlot] =
            [IdleHandler EXCEPT !.pc = "button_callback", !.chat = chat,
                                !.exchange = exchange]]
    /\ out' = "answering"
    /\ UNCHANGED <<active_alerts, pending_alerts, alert_counter, file, tick, assigned, notices, reply, env>>

\* a bug: no return after the reply at line 382
ButtonCallbackNoReturn(h, answered) ==
    LET me == handlers[h] IN
    /\ me.pc = "button_callback"
    /\ UNCHANGED <<active_alerts, alert_counter, file, tick, assigned, notices, reply, env>>
    /\ IF ~answered
       THEN /\ handlers' = [handlers EXCEPT ![h] = IdleHandler]
            /\ out' = "answer_failed"
            /\ UNCHANGED pending_alerts
       ELSE IF me.chat \notin DOMAIN pending_alerts
       THEN /\ handlers' = [handlers EXCEPT ![h] =
                    [me EXCEPT !.pc = "set_alert_from_callback", !.symbol = ETH \o USDT,
                               !.target = 2]]
            /\ out' = "expired"
            /\ UNCHANGED pending_alerts
       ELSE /\ handlers' = [handlers EXCEPT ![h] =
                    [me EXCEPT !.pc = "set_alert_from_callback",
                               !.symbol = pending_alerts[me.chat].symbol,
                               !.target = pending_alerts[me.chat].target]]
            /\ pending_alerts' = DelPending(pending_alerts, me.chat)
            /\ out' = "fetching"

\* button_callback resumes after query.answer(), lines 376-391
ButtonCallback(h, answered) ==
    LET me == handlers[h] IN
    /\ me.pc = "button_callback"
    /\ UNCHANGED <<active_alerts, alert_counter, file, tick, assigned, notices, reply, env>>
    /\ IF ~answered
       THEN /\ handlers' = [handlers EXCEPT ![h] = IdleHandler]
            /\ out' = "answer_failed"
            /\ UNCHANGED pending_alerts
       ELSE IF me.chat \notin DOMAIN pending_alerts
       THEN /\ handlers' = [handlers EXCEPT ![h] = IdleHandler]
            /\ out' = "expired"
            /\ UNCHANGED pending_alerts
       ELSE /\ handlers' = [handlers EXCEPT ![h] =
                    [me EXCEPT !.pc = "set_alert_from_callback",
                               !.symbol = pending_alerts[me.chat].symbol,
                               !.target = pending_alerts[me.chat].target]]
            /\ pending_alerts' = DelPending(pending_alerts, me.chat)
            /\ out' = "fetching"

\* set_alert_from_callback resumes after await get_price, lines 436-467
SetAlertFromCallback(h, current_price, w) ==
    /\ handlers[h].pc = "set_alert_from_callback"
    /\ CreateAfterFetch(h, current_price, w)

\* ---------------------------------------------------------------- removal
RemoveArgs == {<<>>} \cup {<<Str(n)>> : n \in 0..(MaxCounter + 1)}
                     \cup {<<s>> : s \in {<<"b">>, ETH \o USDT}}

\* lines 225-228: the ids of the chat's alerts for the symbol
SymbolMatches(alerts, identifier) ==
    {alerts[i].k : i \in {j \in 1..Len(alerts) :
        \/ alerts[j].v.symbol = identifier
        \/ alerts[j].v.symbol = identifier \o USDT}}

\* lines 231-232: the dict without the ids in removed
RECURSIVE DelAll(_, _)
DelAll(alerts, removed) ==
    IF alerts = <<>> THEN <<>>
    ELSE IF Head(alerts).k \in removed THEN DelAll(Tail(alerts), removed)
    ELSE <<Head(alerts)>> \o DelAll(Tail(alerts), removed)

\* a bug: the number is taken for the alert id
DelById(alerts, alert_num) ==
    IF Has(alerts, Str(alert_num)) THEN Del(alerts, Str(alert_num)) ELSE alerts

\* lines 213-217: the chat's dict without its alert_num-th alert
DelByNumber(alerts, alert_num) == Del(alerts, Keys(alerts)[alert_num])

\* remove_alert, lines 196-236
RemoveAlert(chat, args, w) ==
    LET identifier == Upper(args[1])
        alerts == Get(active_alerts, chat)
        byNumber == IntOk(identifier) /\ 1 <= IntOf(identifier)
                    /\ IntOf(identifier) <= Len(alerts)
        removed == SymbolMatches(alerts, identifier)
    IN
    /\ UNCHANGED <<pending_alerts, alert_counter, handlers, tick, assigned, notices, reply, env>>
    /\ IF args = <<>>
       THEN /\ out' = "invalid"
            /\ w = "ok"
            /\ UNCHANGED <<active_alerts, file>>
       ELSE IF ~Has(active_alerts, chat) \/ alerts = <<>>
       THEN /\ out' = "nothing"
            /\ w = "ok"
            /\ UNCHANGED <<active_alerts, file>>
       ELSE IF byNumber
       THEN /\ active_alerts' = Put(active_alerts, chat, DelByNumber(alerts, IntOf(identifier)))
            /\ file' = SaveAlerts(active_alerts', file, w)
            /\ out' = "removed_number"
       ELSE IF removed # {}
       THEN /\ active_alerts' = Put(active_alerts, chat, DelAll(alerts, removed))
            /\ file' = SaveAlerts(active_alerts', file, w)
            /\ out' = "removed_symbol"
       ELSE /\ out' = "nothing"
            /\ w = "ok"
            /\ UNCHANGED <<active_alerts, file>>

\* active_alerts[chat_id] = {} binds a new dict: a check_alerts run that has
\* not yet reached the chat still holds the old one, with the alerts in it
Rebind(outer, chat, old) ==
    [i \in 1..Len(outer) |->
        IF outer[i].k = chat /\ outer[i].live
        THEN [k |-> chat, live |-> FALSE, items |-> old]
        ELSE outer[i]]

\* clear_alerts, lines 238-247
ClearAlerts(chat, w) ==
    /\ UNCHANGED <<pending_alerts, alert_counter, handlers, assigned, notices, reply, env>>
    /\ IF Has(active_alerts, chat)
       THEN /\ active_alerts' = Put(active_alerts, chat, <<>>)
            /\ file' = SaveAlerts(active_alerts', file, w)
            /\ tick' = [tick EXCEPT !.outer = Rebind(tick.outer, chat, Get(active_alerts, chat))]
            /\ out' = "cleared"
       ELSE /\ out' = "nothing"
            /\ w = "ok"
            /\ UNCHANGED <<active_alerts, file, tick>>

\* ---------------------------------------------------------------- compare_prices
\* line 258
CompareExchanges == <<"binance", "bybit", "bitget", "mexc">>

\* what float(...) of an exchange's answer can be: a price of the model, or
\* 0.0 for a pair that has not traded
Quotes == Prices \cup {0}

CompareArgs == {<<>>, <<"b">>}

Min(S) == CHOOSE x \in S : \A y \in S : x <= y

\* compare_prices, lines 249-304: fetched[i] is what get_price gave for the
\* i-th exchange; the prices are shown in the order of the exchanges
ComparePrices(args, fetched) ==
    LET found == {i \in DOMAIN CompareExchanges : fetched[i] # None}
        prices == SelectSeq([i \in DOMAIN CompareExchanges |->
                                [exchange |-> CompareExchanges[i], price |-> fetched[i]]],
                            LAMBDA e : e.price # None)
        best_price == Min({fetched[i] : i \in found})
        worst_price == Max({fetched[i] : i \in found})
    IN
    /\ UNCHANGED <<active_alerts, pending_alerts, alert_counter, file, handlers, tick,
                   assigned, notices, env>>
    /\ IF args = <<>>
       THEN out' = "invalid" /\ reply' = NoReply
       ELSE IF found = {}
       THEN out' = "not_found_anywhere" /\ reply' = NoReply
       ELSE IF Cardinality(found) > 1
       THEN IF best_price = 0
            THEN \* ZeroDivisionError at line 296: nothing is replied
                 out' = "compare_failed" /\ reply' = NoReply
            ELSE /\ out' = "compared"
                 /\ reply' = [shown |-> prices, spread |-> worst_price - best_price]
       ELSE /\ out' = "compared"
            /\ reply' = [shown |-> prices, spread |-> None]

\* ---------------------------------------------------------------- list_alerts
\* list_alerts, lines 175-189: up to the first await get_price. The for loop
\* of line 184 iterates the chat's dict itself: used is the size of the dict
\* when the iterator was made, seen the ids of the alerts visited
ListAlerts(chat) ==
    LET alerts == Get(active_alerts, chat) IN
    /\ FreeSlots # {}
    /\ UNCHANGED <<active_alerts, pending_alerts, alert_counter, file, tick,
                   assigned, notices, reply, env>>
    /\ IF ~Has(active_alerts, chat) \/ alerts = <<>>
       THEN /\ out' = "no_alerts"
            /\ UNCHANGED handlers
       ELSE /\ handlers' = [handlers EXCEPT ![FreeSlot] =
                   [pc |-> "list_alerts", chat |-> chat, used |-> Len(alerts),
                    seen |-> <<alerts[1].k>>]]
            /\ out' = "listing"

\* the entries of the dict that the iterator has passed
Passed(alerts, seen) ==
    Cardinality({i \in 1..Len(alerts) : \E j \in 1..Len(seen) : seen[j] = alerts[i].k})

\* list_alerts resumes after await get_price, lines 189-194: the line of the
\* alert is added and the iterator is asked for the next entry; it raises
\* RuntimeError (dictionary changed size during iteration) when the size of
\* the dict is no longer used, before it looks for an entry
ListFetched(h, current) ==
    LET me == handlers[h]
        alerts == Get(active_alerts, me.chat)
        passed == Passed(alerts, me.seen)
    IN
    /\ me.pc = "list_alerts"
    /\ current \in env.prices \cup {None}
    /\ UNCHANGED <<active_alerts, pending_alerts, alert_counter, file, tick,
                   assigned, notices, reply, env>>
    /\ IF Len(alerts) # me.used
       THEN /\ out' = "list_failed"
            /\ handlers' = [handlers EXCEPT ![h] = IdleHandler]
       ELSE IF passed < Len(alerts)
       THEN /\ out' = "listing"
            /\ handlers' = [handlers EXCEPT ![h].seen = Append(@, alerts[passed + 1].k)]
       ELSE /\ out' = "listed"
            /\ handlers' = [handlers EXCEPT ![h] = IdleHandler]

\* ---------------------------------------------------------------- check_alerts
\* a bug: an alert with target = initial is taken for a downward alert
TriggeredOrEqual(target_price, initial_price, last_price, current_price) ==
    IF target_price <= initial_price
    THEN last_price > target_price /\ current_price <= target_price
    ELSE last_price < target_price /\ current_price >= target_price

\* a bug: the boundary is exclusive
TriggeredStrict(target_price, initial_price, last_price, current_price) ==
    IF target_price < initial_price
    THEN last_price > target_price /\ current_price < target_price
    ELSE IF target_price > initial_price
    THEN last_price < target_price /\ current_price > target_price
    ELSE FALSE

\* lines 484-495
Triggered(target_price, initial_price, last_price, current_price) ==
    IF target_price < initial_price
    THEN last_price > target_price /\ current_price <= target_price
    ELSE IF target_price > initial_price
    THEN last_price < target_price /\ current_price >= target_price
    ELSE FALSE

\* list(active_alerts.items()), line 471: the chats with the dicts bound to them
OuterList(store) == [i \in 1..Len(store) |-> [k |-> store[i].k, live |-> TRUE, items |-> <<>>]]

\* the two for loops, lines 471-477: on to the next alert and up to its
\* await get_price, or to the end of the run
RECURSIVE NextAlert(_, _, _, _)
NextAlert(store, outer, inner, chat) ==
    IF inner # <<>>
    THEN [pc |-> "fetch", outer |-> outer, inner |-> Tail(inner), chat |-> chat,
          alert_id |-> Head(inner).k,
          target_price |-> Head(inner).v.target,
          initial_price |-> Head(inner).v.initial,
          last_price |-> Head(inner).v.last_price,
          current_price |-> 0]
    ELSE IF outer # <<>>
    THEN NextAlert(store, Tail(outer),
                   IF Head(outer).live THEN Get(store, Head(outer).k) ELSE Head(outer).items,
                   Head(outer).k)
    ELSE IdleTick

\* the job queue calls check_alerts, lines 469-479
TickStart ==
    /\ tick.pc = "idle"
    /\ tick' = NextAlert(active_alerts, OuterList(active_alerts), <<>>, 0)
    /\ out' = "tick"
    /\ UNCHANGED <<active_alerts, pending_alerts, alert_counter, file, handlers, assigned, notices, reply, env>>

\* the alert check_alerts is at is in the store
Present(store, chat, alert_id) == Has(store, chat) /\ Has(Get(store, chat), alert_id)

\* a bug: the price is stored under 'initial'
SetLastPriceInitial(store, chat, alert_id, current_price) ==
    Put(store, chat, Put(Get(store, chat), alert_id,
        [Get(Get(store, chat), alert_id) EXCEPT !.initial = current_price]))

\* a bug: the assignment at line 498 is missing
SetLastPriceNot(store, chat, alert_id, current_price) == store

\* active_alerts[chat_id][alert_id]['last_price'] = current_price, line 498
SetLastPrice(store, chat, alert_id, current_price) ==
    Put(store, chat, Put(Get(store, chat), alert_id,
        [Get(Get(store, chat), alert_id) EXCEPT !.last_price = current_price]))

\* the price is strictly on the side of the target where the alert started
OnOriginalSide(target_price, initial_price, price) ==
    \/ target_price < initial_price /\ price > target_price
    \/ target_price > initial_price /\ price < target_price

\* history: a send that failed counts until a price is seen on the original side
Observed(n, alert_id, target_price, initial_price, current_price) ==
    IF current_price # None /\ OnOriginalSide(target_price, initial_price, current_price)
    THEN [n EXCEPT !.failed = @ \ {alert_id}]
    ELSE n

\* a bug: return instead of continue at line 482
TickFetchedReturn(current_price) ==
    /\ tick.pc = "fetch"
    /\ current_price \in env.prices \cup {None}
    /\ notices' = Observed(notices, tick.alert_id, tick.target_price, tick.initial_price, current_price)
    /\ UNCHANGED <<pending_alerts, alert_counter, file, handlers, assigned, reply, env>>
    /\ IF current_price = None
       THEN /\ tick' = IdleTick
            /\ out' = "skipped"
            /\ UNCHANGED active_alerts
       ELSE IF ~Present(active_alerts, tick.chat, tick.alert_id)
       THEN /\ tick' = IdleTick
            /\ out' = "tick_failed"
            /\ UNCHANGED active_alerts
       ELSE /\ active_alerts' = SetLastPrice(active_alerts, tick.chat, tick.alert_id, current_price)
            /\ IF Triggered(tick.target_price, tick.initial_price, tick.last_price, current_price)
               THEN /\ tick' = [tick EXCEPT !.pc = "send", !.current_price = current_price]
                    /\ out' = "sending"
               ELSE /\ tick' = NextAlert(active_alerts', tick.outer, tick.inner, tick.chat)
                    /\ out' = "not_triggered"

\* check_alerts resumes after await get_price, lines 479-533
TickFetched(current_price) ==
    /\ tick.pc = "fetch"
    /\ current_price \in env.prices \cup {None}
    /\ notices' = Observed(notices, tick.alert_id, tick.target_price, tick.initial_price, current_price)
    /\ UNCHANGED <<pending_alerts, alert_counter, file, handlers, assigned, reply, env>>
    /\ IF current_price = None
       THEN /\ tick' = NextAlert(active_alerts, tick.outer, tick.inner, tick.chat)
            /\ out' = "skipped"
            /\ UNCHANGED active_alerts
       ELSE IF ~Present(active_alerts, tick.chat, tick.alert_id)
       THEN \* KeyError at line 498: the run of check_alerts ends
            /\ tick' = IdleTick
            /\ out' = "tick_failed"
            /\ UNCHANGED active_alerts
       ELSE /\ active_alerts' = SetLastPrice(active_alerts, tick.chat, tick.alert_id, current_price)
            /\ IF Triggered(tick.target_price, tick.initial_price, tick.last_price, current_price)
               THEN /\ tick' = [tick EXCEPT !.pc = "send", !.current_price = current_price]
                    /\ out' = "sending"
               ELSE /\ tick' = NextAlert(active_alerts', tick.outer, tick.inner, tick.chat)
                    /\ out' = "not_triggered"

\* a bug: the alert is deleted before the message is sent
RemovesBeforeSend(sent, present) == present

\* a bug: the del at line 540 is missing
RemovesNever(sent, present) == FALSE

\* lines 532-541: the try block gets to del and deletes
Removes(sent, present) == sent /\ present

\* check_alerts resumes after await send_message, lines 532-543
TickSent(sent, w) ==
    LET removes == Removes(sent, Present(active_alerts, tick.chat, tick.alert_id)) IN
    /\ tick.pc = "send"
    /\ notices' = IF sent THEN [notices EXCEPT !.delivered = @ \cup {tick.alert_id}]
                   ELSE [notices EXCEPT !.failed = @ \cup {tick.alert_id}]
    /\ UNCHANGED <<pending_alerts, alert_counter, handlers, assigned, reply, env>>
    /\ out' = IF ~sent THEN "send_failed" ELSE IF removes THEN "notified" ELSE "notified_gone"
    /\ IF removes
       THEN /\ active_alerts' = Put(active_alerts, tick.chat,
                                    Del(Get(active_alerts, tick.chat), tick.alert_id))
            /\ file' = SaveAlerts(active_alerts', file, w)
       ELSE \* send_message raised, or KeyError at line 540: logged
            /\ w = "ok"
            /\ UNCHANGED <<active_alerts, file>>
    /\ tick' = NextAlert(active_alerts', tick.outer, tick.inner, tick.chat)

\* ---------------------------------------------------------------- specification
\* the update handlers
Commands ==
    \/ \E c \in env.chats, txt \in env.texts : HandleMessage(c, txt)
    \/ \E h \in Slots, p \in Prices \cup {None}, w \in env.saves : SetAlert(h, p, w)
    \/ \E c \in env.chats, e \in ButtonExchanges : ButtonPressed(c, e)
    \/ \E h \in Slots, a \in BOOLEAN : ButtonCallback(h, a)
    \/ \E h \in Slots, p \in Prices \cup {None}, w \in env.saves : SetAlertFromCallback(h, p, w)
    \/ \E c \in env.chats, args \in RemoveArgs, w \in env.saves : RemoveAlert(c, args, w)
    \/ \E c \in env.chats, w \in env.saves : ClearAlerts(c, w)

\* the check_alerts job
Polling ==
    \/ TickStart
    \/ \E p \in Prices \cup {None} : TickFetched(p)
    \/ \E s \in env.sends, w \in env.saves : TickSent(s, w)

\* the steps of one process run
Run == Commands \/ Polling

Next == Run \/ Restart

\* Application.builder() handles one update at a time
Sequential == 1

\* alerts created in one run of the specification with every failure in it
MaxLossy == 1

\* the file system and the transport may fail, the process may restart
Init == InitIn(Env(Chats, InputTexts, Prices, SaveOutcomes, BOOLEAN, MaxLossy, Sequential))
Spec == Init /\ [][Next]_vars

\* one run of the process in which every write and every send succeeds
InitRun == InitIn(Env(Chats, InputTexts, Prices, {"ok"}, {TRUE}, MaxCounter, Sequential))
SpecRun == InitRun /\ [][Run]_vars

\* updates handled concurrently
InitConcurrent == InitIn(Env(Chats, MoreTexts, {1, 2}, {"ok"}, {TRUE}, MaxCounter, MaxHandlers))
SpecConcurrent == InitConcurrent /\ [][Run]_vars

\* one run after another, every write and every send succeeding
InitRestart == InitIn(Env({-2}, InputTexts, {1, 2}, {"ok"}, {TRUE}, MaxCounter, Sequential))
SpecRestart == InitRestart /\ [][Next]_vars

\* the commands alone, on more alerts
InitStore == InitIn(Env(Chats, InputTexts, {1}, {"ok"}, {TRUE}, MaxCounter + 1, Sequential))
SpecStore == InitStore /\ [][Commands \/ Restart]_vars

\* the compare command alone
Compare ==
    \E args \in CompareArgs, fetched \in [DOMAIN CompareExchanges -> Quotes \cup {None}] :
        ComparePrices(args, fetched)

SpecCompare == Init /\ [][Compare]_vars

\* the list command
Listing ==
    \/ \E c \in env.chats : ListAlerts(c)
    \/ \E h \in Slots, p \in Prices \cup {None} : ListFetched(h, p)

\* Application.builder() handles one update at a time: while list_alerts
\* waits for a price no other handler runs; check_alerts does
InitList == InitIn(Env({1}, InputTexts, Prices, {"ok"}, {TRUE}, MaxCounter, Sequential))
NotListing == \A h \in Slots : handlers[h].pc # "list_alerts"
SpecList == InitList /\ [][(NotListing /\ Commands) \/ Polling \/ Listing]_vars

\* ---------------------------------------------------------------- properties
Alert(store, chat, alert_id) == Get(Get(store, chat), alert_id)

\* the alerts of the store, as <<chat, id>>
Stored(store) == UNION {{<<store[i].k, a>> : a \in KeySet(store[i].v)} : i \in 1..Len(store)}

\* the price is on the target or beyond it, seen from the price at creation
AtOrPast(a, price) == \/ a.target < a.initial /\ price <= a.target
                      \/ a.target > a.initial /\ price >= a.target

\* C1: when check_alerts has fetched a price for an alert, the alert triggers
\* exactly if (target < initial and last_price > target and current <= target)
\* or (target > initial and last_price < target and current >= target).
C1_TriggerDecision ==
    [][(tick.pc = "fetch" /\ out' \in {"sending", "not_triggered"}) =>
        LET a == Alert(active_alerts, tick.chat, tick.alert_id)
            current == Alert(active_alerts', tick.chat, tick.alert_id).last_price
        IN (out' = "sending") <=>
              \/ a.target < a.initial /\ a.last_price > a.target /\ current <= a.target
              \/ a.target > a.initial /\ a.last_price < a.target /\ current >= a.target
      ]_vars

\* an alert has triggered on a price equal to its target
C1_Witness == out = "sending" /\ tick.pc = "send" /\ tick.current_price = tick.target_price

\* C3: a failed send leaves the store as it is, the alert in it with the price
\* fetched in this tick as last_price; a successful send leaves the alert out
\* of the store; check_alerts removes an alert in no other step.
C3_RemovedOnlyWhenSent ==
    [][/\ (tick.pc = "send" /\ out' = "send_failed") =>
            /\ active_alerts' = active_alerts
            /\ Present(active_alerts, tick.chat, tick.alert_id) =>
                 Alert(active_alerts', tick.chat, tick.alert_id).last_price = tick.current_price
       /\ (tick.pc = "send" /\ out' \in {"notified", "notified_gone"}) =>
            ~Present(active_alerts', tick.chat, tick.alert_id)
       /\ out' \in {"tick", "skipped", "tick_failed", "sending", "not_triggered",
                    "notified_gone", "send_failed"} =>
            Stored(active_alerts') = Stored(active_alerts)
      ]_vars

\* after a failed send the alert is in the store, its last_price on the target or past it
C3_Witness ==
    /\ out = "send_failed"
    /\ \E x \in Stored(active_alerts) :
          AtOrPast(Alert(active_alerts, x[1], x[2]), Alert(active_alerts, x[1], x[2]).last_price)

\* C5: a creation that gets no price changes neither the store nor the counter
\* and writes no snapshot; a creation handler that ends either reports the
\* symbol as not found or has stored one alert.
C5_NotFoundCreatesNothing ==
    [][/\ out' = "not_found" => UNCHANGED <<active_alerts, alert_counter, file>>
       /\ \A h \in Slots :
            (/\ handlers[h].pc \in {"set_alert", "set_alert_from_callback"}
             /\ handlers'[h].pc = "idle"
             /\ out' # "started") =>
                \/ out' = "not_found"
                \/ /\ out' = "alert_set"
                   /\ alert_counter' = alert_counter + 1
                   /\ Cardinality(Stored(active_alerts')) = Cardinality(Stored(active_alerts)) + 1
      ]_vars

C5_Witness == out = "not_found" /\ alert_counter = 0 /\ active_alerts = <<>>

\* C9: an exchange selection for a chat without a pending entry reports that
\* the selection expired, ends there, and changes neither the store, the
\* counter, the pending buffer nor the snapshot.
C9_ExpiredIsNoOp ==
    [][/\ out' = "expired" =>
            /\ UNCHANGED <<active_alerts, alert_counter, pending_alerts, file>>
            /\ \A h \in Slots : handlers'[h] # handlers[h] => handlers'[h] = IdleHandler
       /\ \A h \in Slots :
            (/\ handlers[h].pc = "button_callback"
             /\ handlers'[h].pc # "button_callback"
             /\ out' \notin {"answer_failed", "started"}
             /\ handlers[h].chat \notin DOMAIN pending_alerts) =>
                out' = "expired"
      ]_vars

C9_Witness == out = "expired"

\* the alerts check_alerts has still to visit in this run, in its order
RECURSIVE Ahead(_, _, _, _)
Ahead(store, outer, inner, chat) ==
    IF inner # <<>>
    THEN <<(<<chat, Head(inner).k>>)>> \o Ahead(store, outer, Tail(inner), chat)
    ELSE IF outer # <<>>
    THEN Ahead(store, Tail(outer),
               IF Head(outer).live THEN Get(store, Head(outer).k) ELSE Head(outer).items,
               Head(outer).k)
    ELSE <<>>

\* C2: while every send succeeds, an alert with target # initial triggers on
\* a fetched price exactly if the price is on the target or past it, so on the
\* first such tick and on none before; after the send the alert is not in
\* the store.
C2_TriggersOnFirstCrossing ==
    [][/\ (tick.pc = "fetch" /\ out' \in {"sending", "not_triggered"}) =>
            LET a == Alert(active_alerts, tick.chat, tick.alert_id)
                current == Alert(active_alerts', tick.chat, tick.alert_id).last_price
            IN a.target # a.initial => ((out' = "sending") <=> AtOrPast(a, current))
       /\ (tick.pc = "send" /\ out' \in {"notified", "notified_gone", "send_failed"}) =>
            /\ out' # "send_failed"
            /\ ~Present(active_alerts', tick.chat, tick.alert_id)
      ]_vars

\* an alert has triggered and is gone, another alert is still in the store
C2_Witness == out = "notified" /\ Cardinality(Stored(active_alerts)) = 1

\* C4: when the fetch for an alert gives no price, the store and the snapshot
\* stay as they are, nothing is sent, and check_alerts is at the next alert
\* of its run, or at its end when there is none.
C4_NoPriceSkips ==
    [][out' = "skipped" =>
        LET ahead == Ahead(active_alerts, tick.outer, tick.inner, tick.chat) IN
        /\ UNCHANGED <<active_alerts, file, alert_counter, pending_alerts>>
        /\ tick'.pc # "send"
        /\ IF ahead = <<>> THEN tick'.pc = "idle"
           ELSE tick'.pc = "fetch" /\ <<tick'.chat, tick'.alert_id>> = Head(ahead)
      ]_vars

\* an alert was skipped and check_alerts is at the next one
C4_Witness == out = "skipped" /\ tick.pc = "fetch"

\* C6: no two alerts of the store have the same id, in one chat or in two,
\* and the counter is above every id of the store.
C6_IdsUnique ==
    /\ \A i, j \in 1..Len(active_alerts) :
         \A m \in 1..Len(active_alerts[i].v), n \in 1..Len(active_alerts[j].v) :
            active_alerts[i].v[m].k = active_alerts[j].v[n].k => i = j /\ m = n
    /\ \A a \in AlertIds(active_alerts) : IntOk(a) /\ IntOf(a) < alert_counter

\* an alert is in the store, check_alerts is at it, and a creation handler of
\* another chat waits for its price
C6_Witness ==
    /\ Cardinality(Stored(active_alerts)) = 1
    /\ tick.pc = "fetch"
    /\ \E h \in Slots :
          /\ handlers[h].pc \in {"set_alert", "set_alert_from_callback"}
          /\ <<handlers[h].chat, Str(0)>> \notin Stored(active_alerts)

\* C8: a chat has one pending entry at most, which a message without exchange
\* sets to its symbol and target whatever was there; the step in which a
\* selection reads the entry deletes it and belongs to one handler, which
\* then stores one alert at most.
C8_PendingTakenOnce ==
    [][/\ out' = "select_exchange" =>
            \E c \in env.chats, txt \in env.texts :
                /\ txt.n = 2
                /\ FloatOk(RemoveCommas(txt.price))
                /\ DOMAIN pending_alerts' = DOMAIN pending_alerts \cup {c}
                /\ pending_alerts'[c] = [symbol |-> NormSymbol(txt.sym),
                                         target |-> FloatOf(RemoveCommas(txt.price))]
                /\ \A d \in DOMAIN pending_alerts \ {c} : pending_alerts'[d] = pending_alerts[d]
       /\ \A h \in Slots :
            (handlers[h].pc = "button_callback" /\ handlers'[h].pc = "set_alert_from_callback") =>
                LET c == handlers[h].chat IN
                /\ c \in DOMAIN pending_alerts
                /\ DOMAIN pending_alerts' = DOMAIN pending_alerts \ {c}
                /\ handlers'[h].symbol = pending_alerts[c].symbol
                /\ handlers'[h].target = pending_alerts[c].target
                /\ \A g \in Slots \ {h} : handlers'[g] = handlers[g]
       /\ \A h \in Slots :
            (handlers[h].pc = "set_alert_from_callback" /\ handlers'[h] # handlers[h]) =>
                /\ handlers'[h] = IdleHandler
                /\ Cardinality(Stored(active_alerts')) <= Cardinality(Stored(active_alerts)) + 1
      ]_vars

\* of two selections of one chat one has taken the entry, the other is still to look
C8_Witness ==
    \E h, g \in Slots :
        /\ handlers[h].pc = "set_alert_from_callback"
        /\ handlers[g].pc = "button_callback"
        /\ handlers[g].chat = handlers[h].chat
        /\ handlers[h].chat \notin DOMAIN pending_alerts

\* the id the creation step has given out
NewIds == assigned'.run \ assigned.run

\* C7, as claimed: an id once given to an alert is never given to a later
\* alert, also over restarts.
C7_NeverReused ==
    [][out' = "alert_set" =>
        /\ Cardinality(NewIds) = 1
        /\ NewIds \cap assigned.before = {}
      ]_vars

\* C7, amended: within one run of the process an id is given out once, and it
\* is the id of no alert of the store, loaded from the snapshot or created
\* in the run.
C7_NotReusedInRun ==
    [][out' = "alert_set" =>
        /\ Cardinality(NewIds) = 1
        /\ NewIds \cap AlertIds(active_alerts) = {}
        /\ NewIds \subseteq AlertIds(active_alerts')
      ]_vars

\* an alert was created after a restart, beside an alert of the run before
C7_Witness ==
    /\ out = "alert_set"
    /\ assigned.before # {}
    /\ Cardinality(Stored(active_alerts)) = 2

\* the chat's dict without its n-th entry
WithoutNth(alerts, n) ==
    [i \in 1..(Len(alerts) - 1) |-> IF i < n THEN alerts[i] ELSE alerts[i + 1]]

\* the entries of a chat's dict are in the order of their creation
InCreationOrder(alerts) ==
    \A i, j \in 1..Len(alerts) : i < j => IntOf(alerts[i].k) < IntOf(alerts[j].k)

\* C10: remove n, with 1 <= n <= number of the chat's alerts, takes the n-th
\* alert of the chat in the order of creation out of the store and leaves the
\* other alerts of the chat and the alerts of the other chats as they are.
C10_RemoveByNumber ==
    [][\A c \in env.chats, n \in 1..(MaxCounter + 2) :
        (/\ out' = "removed_number"
         /\ Has(active_alerts, c)
         /\ n <= Len(Get(active_alerts, c))
         /\ \E w \in env.saves : RemoveAlert(c, <<Str(n)>>, w)) =>
            /\ InCreationOrder(Get(active_alerts, c))
            /\ Len(active_alerts') = Len(active_alerts)
            /\ \A i \in 1..Len(active_alerts) :
                 /\ active_alerts'[i].k = active_alerts[i].k
                 /\ active_alerts'[i].v = IF active_alerts[i].k = c
                                          THEN WithoutNth(active_alerts[i].v, n)
                                          ELSE active_alerts[i].v
      ]_vars

\* the second of three alerts of a chat has been removed
C10_Witness ==
    /\ out = "removed_number"
    /\ \E i \in 1..Len(active_alerts) : Keys(active_alerts[i].v) = <<Str(0), Str(2)>>

\* the steps that change the set of alerts and call save_alerts
Mutations == {"alert_set", "removed_number", "removed_symbol", "cleared", "notified"}

\* the snapshot holds the chats of the store, each with the alerts of the store
SnapshotIs(f, store) ==
    /\ f.state = "ok"
    /\ Len(f.data) = Len(store)
    /\ \A i \in 1..Len(store) :
         \E j \in 1..Len(f.data) :
            /\ f.data[j].k = Str(store[i].k)
            /\ f.data[j].v = store[i].v

\* C11: when a creation, a removal by number or by symbol, a clear or the
\* removal of a triggered alert has written the snapshot, the snapshot holds
\* the store as the step leaves it: every chat, every alert.
C11_SnapshotIsStore ==
    [][out' \in Mutations => SnapshotIs(file', active_alerts')]_vars

\* a chat was cleared while another chat has an alert: both are in the snapshot
C11_Witness ==
    /\ out = "cleared"
    /\ Len(file.data) = 2
    /\ Cardinality(Stored(active_alerts)) = 1

\* the two stores have the same chats, each with the same alerts
SameStore(a, b) ==
    {<<a[i].k, a[i].v>> : i \in 1..Len(a)} = {<<b[i].k, b[i].v>> : i \in 1..Len(b)}

\* C12: a store written by save_alerts and read back by load_data at the next
\* start has the same chats with the same alerts, ids and fields, and the
\* counter is then at least the largest id + 1.
C12_RoundTrip ==
    [][(out' = "started" /\ SnapshotIs(file, active_alerts)) =>
        /\ SameStore(active_alerts', active_alerts)
        /\ \A a \in AlertIds(active_alerts') : alert_counter' >= IntOf(a) + 1
      ]_vars

\* a store of two chats with an alert each has been read back
C12_Witness ==
    /\ out = "started"
    /\ Len(active_alerts) = 2
    /\ \A i \in 1..Len(active_alerts) : Len(active_alerts[i].v) = 1

\* C13, as claimed: a message SYMBOL PRICE without exchange starts the
\* creation of the alert on binance, so that once the symbol resolves the
\* chat has a new alert whose exchange is binance.
C13_DefaultsToBinance ==
    [][\A c \in env.chats, txt \in env.texts :
        (txt.n = 2 /\ FloatOk(RemoveCommas(txt.price)) /\ HandleMessage(c, txt)) =>
            \E h \in Slots :
                /\ handlers'[h].pc = "set_alert"
                /\ handlers'[h].chat = c
                /\ handlers'[h].exchange = "binance"
      ]_vars

\* C14, as claimed: compare reports the exchanges that gave a price, each
\* with its price and no other; with two prices or more the spread is the
\* largest less the smallest of them; with no price the symbol is reported
\* as not found.
C14_CompareReports ==
    [][\A fetched \in [DOMAIN CompareExchanges -> Quotes \cup {None}] :
        ComparePrices(<<"b">>, fetched) =>
            LET found == {i \in DOMAIN CompareExchanges : fetched[i] # None} IN
            IF found = {}
            THEN out' = "not_found_anywhere"
            ELSE /\ out' = "compared"
                 /\ {<<e.exchange, e.price>> : e \in {reply'.shown[j] : j \in DOMAIN reply'.shown}}
                      = {<<CompareExchanges[i], fetched[i]>> : i \in found}
                 /\ Len(reply'.shown) = Cardinality(found)
                 /\ Cardinality(found) >= 2 =>
                      \E i, j \in found :
                         /\ \A k \in found : fetched[j] <= fetched[k] /\ fetched[k] <= fetched[i]
                         /\ reply'.spread = fetched[i] - fetched[j]
      ]_vars

\* C15, as claimed: when the write of the snapshot fails in a creation, a
\* removal, a clear or a trigger-removal, the change of the store is kept,
\* the step reports success, and the snapshot keeps the content it had.
C15_FailedWriteKeepsSnapshot ==
    [][(/\ out' \in Mutations
        /\ file.state = "ok"
        /\ ~SnapshotIs(file', active_alerts')) =>
            /\ out' # "cleared" => Stored(active_alerts') # Stored(active_alerts)
            /\ file' = file
      ]_vars

\* C16, as claimed: when the alert check_alerts waits on was removed, or its
\* chat cleared, during the fetch, check_alerts does not fail and is next at
\* the first of the alerts it has still to visit, or at its end when there
\* is none.
C16_TickToleratesRemoval ==
    [][(/\ tick.pc = "fetch"
        /\ ~Present(active_alerts, tick.chat, tick.alert_id)
        /\ out' \in {"skipped", "tick_failed", "sending", "not_triggered"}) =>
            LET ahead == Ahead(active_alerts, tick.outer, tick.inner, tick.chat) IN
            /\ out' # "tick_failed"
            /\ IF ahead = <<>> THEN tick'.pc = "idle"
               ELSE tick'.pc = "fetch" /\ <<tick'.chat, tick'.alert_id>> = Head(ahead)
      ]_vars

C18_FailedSendNotRetried ==
    [][/\ (tick.pc = "fetch" /\ out' = "sending") =>
            /\ tick.alert_id \notin notices.failed
            /\ AtOrPast(Alert(active_alerts, tick.chat, tick.alert_id), tick'.current_price)
       /\ (tick.pc = "send" /\ out' = "send_failed") => tick.alert_id \in notices'.failed
      ]_vars

\* after a failed send the alert was evaluated on a price on the target or
\* past it and has not triggered
C18_Witness ==
    /\ out = "not_triggered"
    /\ notices.failed = {Str(0)}
    /\ Present(active_alerts, 1, Str(0))

\* C19: when check_alerts has fetched the price p for an alert and the alert
\* is in the store after the step, its last_price is p, triggered or not, and
\* its symbol, exchange, target and initial are as before; a failed send
\* leaves it so.
C19_LastPriceIsFetched ==
    [][/\ \A p \in Prices :
            (/\ tick.pc = "fetch"
             /\ TickFetched(p)
             /\ Present(active_alerts', tick.chat, tick.alert_id)) =>
                /\ Present(active_alerts, tick.chat, tick.alert_id)
                /\ Alert(active_alerts', tick.chat, tick.alert_id) =
                     [symbol |-> Alert(active_alerts, tick.chat, tick.alert_id).symbol,
                      exchange |-> Alert(active_alerts, tick.chat, tick.alert_id).exchange,
                      target |-> Alert(active_alerts, tick.chat, tick.alert_id).target,
                      initial |-> Alert(active_alerts, tick.chat, tick.alert_id).initial,
                      last_price |-> p]
       /\ (/\ tick.pc = "send"
           /\ out' \in {"send_failed", "notified", "notified_gone"}
           /\ Present(active_alerts', tick.chat, tick.alert_id)) =>
                /\ Alert(active_alerts', tick.chat, tick.alert_id) =
                     Alert(active_alerts, tick.chat, tick.alert_id)
                /\ Alert(active_alerts', tick.chat, tick.alert_id).last_price = tick.current_price
      ]_vars

\* an alert has not triggered and its last_price is no longer the initial price
C19_Witness ==
    /\ out = "not_triggered"
    /\ \E x \in Stored(active_alerts) :
          Alert(active_alerts, x[1], x[2]).last_price # Alert(active_alerts, x[1], x[2]).initial

\* C20, as claimed: a step of check_alerts that changes the last_price of an
\* alert without triggering it writes the snapshot: after it the snapshot
\* holds the store, the new last_price included.
C20_LastPricePersisted ==
    [][(/\ out' = "not_triggered"
        /\ SnapshotIs(file, active_alerts)
        /\ active_alerts' # active_alerts) =>
            SnapshotIs(file', active_alerts')
      ]_vars

\* C21, as claimed: a list command that has started ends with the reply that
\* lists the alerts, whatever check_alerts does to the chat's alerts while
\* the command waits for a price.
C21_ListCompletes ==
    [][\A h \in Slots :
        (handlers[h].pc = "list_alerts" /\ handlers'[h].pc # "list_alerts") =>
            out' = "listed"
      ]_vars

\* the alert was created at a price equal to its target
Degenerate(store, x) == Alert(store, x[1], x[2]).target = Alert(store, x[1], x[2]).initial

\* C22: check_alerts sends no notification for an alert with target =
\* initial, whatever prices it fetches, and does not remove it: such an alert
\* leaves the store in a remove or a clear command only.
C22_EqualTargetNeverTriggers ==
    [][/\ out' \in {"sending", "notified", "notified_gone", "send_failed"} =>
            tick'.pc = "send" \/ tick.pc = "send"
       /\ tick'.pc = "send" => tick'.target_price # tick'.initial_price
       /\ \A x \in Stored(active_alerts) :
            (Degenerate(active_alerts, x) /\ x \notin Stored(active_alerts')) =>
                out' \in {"removed_number", "removed_symbol", "cleared"}
      ]_vars

\* an alert with target = initial has seen the price fall below the target
\* and has not triggered
C22_Witness ==
    /\ out = "not_triggered"
    /\ \E x \in Stored(active_alerts) :
          /\ Degenerate(active_alerts, x)
          /\ Alert(active_alerts, x[1], x[2]).last_price < Alert(active_alerts, x[1], x[2]).target

====
